---- MODULE Spec2Model ----
(***************************************************************************)
(* Model of core/sr-io/src/offchain/http.rs: the request builder and its   *)
(* send(), the pending-request wait operations, the buffered response body *)
(* iterator and the headers collection with its two-step iterator.         *)
(*                                                                         *)
(* Conventions.  Option<T> is a sequence of length at most one: None is    *)
(* << >> and Some(x) is << x >>.  A &str is a sequence of code points, a   *)
(* Vec<u8> / &[u8] a sequence of bytes; as_bytes and from_utf8 convert     *)
(* between the two by UTF-8.  The host functions of the crate are the      *)
(* transport: their answers are chosen nondeterministically.               *)
(***************************************************************************)
EXTENDS Integers, Sequences, FiniteSets, TLC

VARIABLES
    request,      \* Option<Request>: the builder the caller owns
    nextId,       \* transport: number of ids issued by http_request_start
    calls,        \* transport calls issued for the builder in hand since Request::new
    sendResult,   \* Option<Result<PendingRequest, ()>>: what send() of that builder returned
    added,        \* history: the (name, value) texts given to add_header, in call order
    sent,         \* history: Option<Request>, the builder as send() consumed it
    handles,      \* the PendingRequest values the caller owns
    started,      \* history: id -> number of http_request_start calls that returned it
    terminal,     \* history: id -> number of terminal outcomes produced for it
    retries,      \* history: id -> number of times the handle was handed back
    lastWait,     \* Option: the most recent try_wait_all call and what it returned
    rb,           \* the ResponseBody cursor
    script,       \* transport: the answers http_response_read_body has yet to give
    offset,       \* transport: number of body bytes handed out so far
    reads,        \* history: the http_response_read_body calls of the cursor
    yielded,      \* history: the bytes next() has returned
    lastOp,       \* history: the most recent operation on the cursor
    pc,           \* "idle", or "next" while a call of ResponseBody::next is running
    raw,          \* Headers::raw
    iter,         \* Option<HeadersIterator>
    nexts,        \* history: next() calls on the iterator since into_iter
    iterOp,       \* history: the most recent operation on the iterator
    sawFalse,     \* history: a next() of the iterator has returned false
    lastFind,     \* history: Option, the most recent Headers::find call and its result
    response,     \* the Response
    tHeaders,     \* transport: what http_response_headers would answer now
    hdrReads,     \* history: the answers of the http_response_headers calls so far
    hdrCalls,     \* history: number of Response::headers calls
    respOp        \* history: the most recent operation on the Response

vars == <<request, nextId, calls, sendResult, added, sent,
          handles, started, terminal, retries, lastWait,
          rb, script, offset, reads, yielded, lastOp, pc,
          raw, iter, nexts, iterOp, sawFalse, lastFind,
          response, tHeaders, hdrReads, hdrCalls, respOp>>

bodyVars == <<rb, script, offset, reads, yielded, lastOp, pc>>
iterVars == <<raw, iter, nexts, iterOp, sawFalse, lastFind>>
respVars == <<response, tHeaders, hdrReads, hdrCalls, respOp>>

sendVars == <<request, nextId, calls, sendResult, added, sent>>
waitVars == <<handles, started, terminal, retries, lastWait>>

-----------------------------------------------------------------------------
(* Bounds *)

MaxIds == 2          \* requests started in one behaviour
MaxHeaders == 2      \* headers added to one builder
MaxChunks == 2       \* chunks in one request body
MaxRetries == 2      \* handles handed back after DeadlineReached in one behaviour
MaxBatch == 2        \* requests in one try_wait_all batch
BufSize == 2         \* bytes in the cursor's buffer (the code's buffer holds 4096)
MaxReads == 3        \* answers the transport has scripted for read_body
MaxRaw == 2          \* pairs in a header collection
MaxExtraNext == 2    \* next() calls past the end of a header collection
MaxHeaderCalls == 3  \* Response::headers calls on one Response

None == << >>
Some(x) == << x >>

Ids == 1..MaxIds

-----------------------------------------------------------------------------
(* Text and bytes *)

\* Code points of the model's &str values: "A" (one UTF-8 byte) and U+00E9
\* (two UTF-8 bytes).
Chars == {65, 233}

\* str::as_bytes: the UTF-8 encoding (one- and two-byte forms).
RECURSIVE AsBytes(_)
AsBytes(s) ==
    IF s = << >> THEN << >>
    ELSE LET c == Head(s) IN
         (IF c < 128 THEN << c >> ELSE << 192 + (c \div 64), 128 + (c % 64) >>)
         \o AsBytes(Tail(s))

\* from_utf8: Some(text) for a well-formed byte sequence, None otherwise.
\* Only the one- and two-byte forms are decoded; the model draws no byte of
\* a longer form.
RECURSIVE from_utf8(_)
from_utf8(chunk) ==
    IF chunk = << >> THEN Some(<< >>)
    ELSE LET b == Head(chunk) IN
         IF b < 128
         THEN LET rest == from_utf8(Tail(chunk)) IN
              IF rest = None THEN None ELSE Some(<< b >> \o rest[1])
         ELSE IF b >= 194 /\ b <= 223 /\ Len(chunk) >= 2
                 /\ chunk[2] >= 128 /\ chunk[2] <= 191
         THEN LET rest == from_utf8(Tail(Tail(chunk))) IN
              IF rest = None THEN None
              ELSE Some(<< (b - 192) * 64 + (chunk[2] - 128) >> \o rest[1])
         ELSE None

\* The sequences over S of length at most n.
SeqUpTo(S, n) == UNION { [1..k -> S] : k \in 0..n }

-----------------------------------------------------------------------------
(* Request builder *)

Methods == {[kind |-> "Get", other |-> ""], [kind |-> "Other", other |-> "PURGE"]}

\* impl AsRef<str> for Method
MethodAsRef(m) ==
    CASE m.kind = "Get" -> "GET"
      [] m.kind = "Post" -> "POST"
      [] m.kind = "Put" -> "PUT"
      [] m.kind = "Patch" -> "PATCH"
      [] m.kind = "Delete" -> "DELETE"
      [] m.kind = "Other" -> m.other

Urls == {"http://localhost", "http://x/y"}
HeaderArgs == {<< <<65>>, <<233>> >>, << <<233, 65>>, <<65>> >>}   \* (name, value) texts
Chunks == {<< >>, << 97, 98 >>}                \* body chunks, the empty one included
Timestamps == {1, 2}
Deadlines == {None} \cup {Some(t) : t \in Timestamps}
WaitDeadlines == {None, Some(1)}

\* Request::default
RequestDefault ==
    [method |-> [kind |-> "Get", other |-> ""], url |-> "http://localhost",
     headers |-> << >>, body |-> << >>, deadline |-> None]

\* Request::new(url)
New(url) ==
    /\ request' = Some([RequestDefault EXCEPT !.url = url])
    /\ calls' = << >>
    /\ sendResult' = None
    /\ added' = << >>
    /\ sent' = None
    /\ UNCHANGED nextId
    /\ UNCHANGED <<waitVars, bodyVars, iterVars, respVars>>

\* Request::url(url)
Url(url) ==
    /\ request # None
    /\ request' = Some([request[1] EXCEPT !.url = url])
    /\ UNCHANGED <<nextId, calls, sendResult, added, sent>>
    /\ UNCHANGED <<waitVars, bodyVars, iterVars, respVars>>

\* the public field Request::method
SetMethod(m) ==
    /\ request # None
    /\ request' = Some([request[1] EXCEPT !.method = m])
    /\ UNCHANGED <<nextId, calls, sendResult, added, sent>>
    /\ UNCHANGED <<waitVars, bodyVars, iterVars, respVars>>

\* Request::body(body)
Body(body) ==
    /\ request # None
    /\ request' = Some([request[1] EXCEPT !.body = body])
    /\ UNCHANGED <<nextId, calls, sendResult, added, sent>>
    /\ UNCHANGED <<waitVars, bodyVars, iterVars, respVars>>

\* Request::add_header(name, value)
AddHeader(name, value) ==
    /\ request # None
    /\ Len(request[1].headers) < MaxHeaders
    /\ request' = Some([request[1] EXCEPT
                          !.headers = Append(@, <<AsBytes(name), AsBytes(value)>>)])
    /\ added' = Append(added, <<name, value>>)
    /\ UNCHANGED <<nextId, calls, sendResult, sent>>
    /\ UNCHANGED <<waitVars, bodyVars, iterVars, respVars>>

\* Request::deadline(deadline)
Deadline(deadline) ==
    /\ request # None
    /\ request' = Some([request[1] EXCEPT !.deadline = Some(deadline)])
    /\ UNCHANGED <<nextId, calls, sendResult, added, sent>>
    /\ UNCHANGED <<waitVars, bodyVars, iterVars, respVars>>

-----------------------------------------------------------------------------
(* Request::send *)

\* One recorded transport call and whether the transport answered success.
\* Fields a call does not take are "" or << >>.
StartCall(id, method, url) ==
    [op |-> "start", id |-> id, method |-> method, url |-> url,
     name |-> << >>, value |-> << >>, chunk |-> << >>, deadline |-> None, ok |-> TRUE]
AddHeaderCall(id, name, value) ==
    [op |-> "add_header", id |-> id, method |-> "", url |-> "",
     name |-> name, value |-> value, chunk |-> << >>, deadline |-> None, ok |-> TRUE]
WriteBodyCall(id, chunk, deadline, ok) ==
    [op |-> "write_body", id |-> id, method |-> "", url |-> "",
     name |-> << >>, value |-> << >>, chunk |-> chunk, deadline |-> deadline, ok |-> ok]

\* The write_body calls send() attempts, in order: one per body chunk, then
\* the empty chunk that finalises the request.
SendWrites(r) == r.body \o << << >> >>

\* The transport calls of send() on request r, when http_request_start
\* returns id and the failAt-th write_body fails (0: no write fails).  The
\* `?` on a failed write returns at once.
SendCallsKeepsWriting(r, id, failAt) ==
    << StartCall(id, MethodAsRef(r.method), r.url) >>
    \o [i \in 1..Len(r.headers) |->
          AddHeaderCall(id, from_utf8(r.headers[i][1])[1], from_utf8(r.headers[i][2])[1])]
    \o [i \in 1..Len(SendWrites(r)) |->
          WriteBodyCall(id, SendWrites(r)[i], r.deadline, i # failAt)]

SendCallsReversedHeaders(r, id, failAt) ==
    LET nWrites == IF failAt = 0 THEN Len(SendWrites(r)) ELSE failAt
        n == Len(r.headers) IN
    << StartCall(id, MethodAsRef(r.method), r.url) >>
    \o [i \in 1..n |->
          AddHeaderCall(id, from_utf8(r.headers[n + 1 - i][1])[1],
                        from_utf8(r.headers[n + 1 - i][2])[1])]
    \o [i \in 1..nWrites |-> WriteBodyCall(id, SendWrites(r)[i], r.deadline, i # failAt)]

SendCalls(r, id, failAt) ==
    LET nWrites == IF failAt = 0 THEN Len(SendWrites(r)) ELSE failAt IN
    << StartCall(id, MethodAsRef(r.method), r.url) >>
    \o [i \in 1..Len(r.headers) |->
          AddHeaderCall(id, from_utf8(r.headers[i][1])[1], from_utf8(r.headers[i][2])[1])]
    \o [i \in 1..nWrites |-> WriteBodyCall(id, SendWrites(r)[i], r.deadline, i # failAt)]

\* What send() returns: Ok(PendingRequest { id }) or Err(()).
SendReturn(id, failAt) ==
    IF failAt = 0 THEN [ok |-> TRUE, pending |-> Some([id |-> id])]
    ELSE [ok |-> FALSE, pending |-> None]

\* Request::send(self): consumes the builder.
Send ==
    /\ request # None
    /\ nextId < MaxIds
    /\ \E failAt \in 0..Len(SendWrites(request[1])) :
         LET id == nextId + 1
             ret == SendReturn(id, failAt) IN
         /\ nextId' = id
         /\ calls' = SendCalls(request[1], id, failAt)
         /\ sendResult' = Some(ret)
         /\ request' = None
         /\ sent' = request
         /\ started' = [started EXCEPT ![id] = @ + 1]
         /\ handles' = IF ret.ok THEN handles \cup {ret.pending[1]} ELSE handles
    /\ UNCHANGED <<added, terminal, retries, lastWait>>
    /\ UNCHANGED <<bodyVars, iterVars, respVars>>

-----------------------------------------------------------------------------
(* PendingRequest *)

\* primitives::offchain::HttpRequestStatus as the transport reports it
DeadlineReached == [kind |-> "DeadlineReached", code |-> 0]
Timeout == [kind |-> "Timeout", code |-> 0]
Unknown == [kind |-> "Unknown", code |-> 0]
Finished(code) == [kind |-> "Finished", code |-> code]
Codes == {200, 404}
Statuses == {DeadlineReached, Timeout, Unknown} \cup {Finished(c) : c \in Codes}

\* Response::new(id, code)
ResponseNew(id, code) == [id |-> id, code |-> code, headers |-> None]

\* Result<Result<Response, Error>, PendingRequest>
Err(req) == [tag |-> "Err", req |-> Some(req), err |-> "", resp |-> None]
OkErr(e) == [tag |-> "OkErr", req |-> None, err |-> e, resp |-> None]
OkOk(resp) == [tag |-> "OkOk", req |-> None, err |-> "", resp |-> Some(resp)]

MapStatusSwapsErrors(status, req) ==
    CASE status.kind = "DeadlineReached" -> Err(req)
      [] status.kind = "Timeout" -> OkErr("Unknown")
      [] status.kind = "Unknown" -> OkErr("Timeout")
      [] status.kind = "Finished" -> OkOk(ResponseNew(req.id, status.code))

MapStatusFreshHandle(status, req) ==
    CASE status.kind = "DeadlineReached" -> Err([id |-> (req.id % MaxIds) + 1])
      [] status.kind = "Timeout" -> OkErr("Timeout")
      [] status.kind = "Unknown" -> OkErr("Unknown")
      [] status.kind = "Finished" -> OkOk(ResponseNew(req.id, status.code))

\* The closure try_wait_all maps over each (status, request) pair.
MapStatus(status, req) ==
    CASE status.kind = "DeadlineReached" -> Err(req)
      [] status.kind = "Timeout" -> OkErr("Timeout")
      [] status.kind = "Unknown" -> OkErr("Unknown")
      [] status.kind = "Finished" -> OkOk(ResponseNew(req.id, status.code))

\* The ids try_wait_all hands to http_response_wait.
WaitIds(requests) == [i \in 1..Len(requests) |-> requests[i].id]

RECURSIVE TryWaitAllStopsAtFailure(_, _)
TryWaitAllStopsAtFailure(requests, statuses) ==
    IF requests = << >> \/ statuses = << >> THEN << >>
    ELSE << MapStatus(Head(statuses), Head(requests)) >>
         \o (IF Head(statuses).kind = "Finished"
              THEN TryWaitAllStopsAtFailure(Tail(requests), Tail(statuses))
              ELSE << >>)

\* The vector try_wait_all returns: statuses zipped with the requests (zip
\* stops at the shorter of the two), each pair mapped.
TryWaitAllResult(requests, statuses) ==
    LET n == IF Len(statuses) < Len(requests) THEN Len(statuses) ELSE Len(requests) IN
    [i \in 1..n |-> MapStatus(statuses[i], requests[i])]

\* The sequences of distinct handles the caller can move into a wait call.
Batches(n) ==
    { b \in SeqUpTo(handles, n) : \A i, j \in 1..Len(b) : i # j => b[i] # b[j] }

\* history: the number of handles handed back so far
RECURSIVE SumTo(_, _)
SumTo(f, n) == IF n = 0 THEN 0 ELSE f[n] + SumTo(f, n - 1)
HandedBack == SumTo(retries, MaxIds)

WaitTransportCallsRetries(requests, deadline) ==
    << [ids |-> WaitIds(requests), deadline |-> deadline],
       [ids |-> WaitIds(requests), deadline |-> deadline] >>

WaitTransportCallsDropsDeadline(requests, deadline) ==
    << [ids |-> WaitIds(requests), deadline |-> None] >>

\* The http_response_wait calls of one try_wait_all call.
WaitTransportCalls(requests, deadline) ==
    << [ids |-> WaitIds(requests), deadline |-> deadline] >>

PanicsNever(op, result) == FALSE

\* Whether the expect() of wait / wait_all panics on what try_wait_all
\* returned: it does on an Err (a request handed back).
Panics(op, result) ==
    /\ op \in {"wait", "wait_all"}
    /\ \E i \in 1..Len(result) : result[i].tag = "Err"

\* The effect of one try_wait_all call (made directly or by try_wait, wait or
\* wait_all, as `op` says) on the caller's handles and on the history:
\* `requests` are moved into the call, http_response_wait answers `statuses`,
\* the handles inside Err results come back to the caller; when wait or
\* wait_all panics nothing comes back and nothing is returned.
WaitEffect(op, requests, deadline, statuses) ==
    LET result == TryWaitAllResult(requests, statuses)
        panic == Panics(op, result)
        given == { requests[i] : i \in 1..Len(requests) }
        back == IF panic THEN {}
                ELSE { result[i].req[1] :
                         i \in { j \in 1..Len(result) : result[j].tag = "Err" } }
        done == IF panic THEN {}
                ELSE { requests[i].id :
                         i \in { j \in 1..Len(result) : result[j].tag # "Err" } } IN
    /\ HandedBack + Cardinality(back) <= MaxRetries
    /\ handles' = (handles \ given) \cup back
    /\ terminal' = [i \in Ids |-> IF i \in done THEN terminal[i] + 1 ELSE terminal[i]]
    /\ retries' = [i \in Ids |->
                     IF \E r \in back : r.id = i THEN retries[i] + 1 ELSE retries[i]]
    /\ lastWait' = Some([op |-> op, ids |-> WaitIds(requests), deadline |-> deadline,
                         statuses |-> statuses, requests |-> requests, result |-> result,
                         transport |-> WaitTransportCalls(requests, deadline),
                         panic |-> panic,
                         ret |-> IF panic THEN << >> ELSE result])
    /\ UNCHANGED started
    /\ UNCHANGED <<sendVars, bodyVars, iterVars, respVars>>

\* PendingRequest::try_wait_all(requests, deadline)
TryWaitAll(requests, deadline) ==
    \E statuses \in [1..Len(requests) -> Statuses] :
        WaitEffect("try_wait_all", requests, deadline, statuses)

\* PendingRequest::try_wait(self, deadline): try_wait_all on vec![self], then
\* pop() of the one result.
TryWait(self, deadline) ==
    \E statuses \in [1..1 -> Statuses] :
        WaitEffect("try_wait", << self >>, deadline, statuses)

\* PendingRequest::wait(self): try_wait(None), then expect().
Wait(self) ==
    \E statuses \in [1..1 -> Statuses] :
        WaitEffect("wait", << self >>, None, statuses)

\* PendingRequest::wait_all(requests): try_wait_all(requests, None), then
\* expect() on each result.
WaitAll(requests) ==
    \E statuses \in [1..Len(requests) -> Statuses] :
        WaitEffect("wait_all", requests, None, statuses)

\* A panic of wait or wait_all has ended the thread.
Panicked == lastWait # None /\ lastWait[1].panic

\* What try_wait returned: the popped last element of the result vector.
TryWaitReturn(w) == w.result[Len(w.result)]

-----------------------------------------------------------------------------
(* ResponseBody *)

\* ResponseBody::new(id), as Response::body() calls it
ResponseBodyNew(id) ==
    [id |-> id, is_deadline_reached |-> FALSE, buffer |-> [i \in 1..BufSize |-> 0],
     filled_up_to |-> None, position |-> 0, deadline |-> None]

\* An answer of http_response_read_body: Ok(size), with size bytes written
\* to the front of the buffer, or Err(()).
ReadOk(size) == [ok |-> TRUE, size |-> size]
ReadErr == [ok |-> FALSE, size |-> 0]
ReadAnswers == {ReadOk(n) : n \in 0..BufSize} \cup {ReadErr}

\* The answer to the next read_body call: the scripted one, and a failure
\* once the script has run out.
TransportAnswer(sc) == IF sc = << >> THEN ReadErr ELSE Head(sc)

\* The bytes the transport writes for an answer: the body is the byte
\* stream 1, 2, 3, ..., handed out from `off` on.
TransportData(answer, off) == [i \in 1..answer.size |-> off + i]

\* The buffer after the transport wrote `data` to its front.
BufferWrite(buffer, data) ==
    [i \in 1..Len(buffer) |-> IF i <= Len(data) THEN data[i] ELSE buffer[i]]

\* A read_body call that passes the deadline the cursor was constructed with.
PassCallConstructionDeadline(st, answer, data) ==
    [id |-> st.rb.id, deadline |-> ResponseBodyNew(st.rb.id).deadline,
     fill |-> st.rb.filled_up_to, pos |-> st.rb.position,
     ok |-> answer.ok, data |-> data]

\* The pieces of a pass, for the variants of NextPass below.
PassCall(st, answer, data) ==
    [id |-> st.rb.id, deadline |-> st.rb.deadline,
     fill |-> st.rb.filled_up_to, pos |-> st.rb.position,
     ok |-> answer.ok, data |-> data]

\* A pass that refills as soon as a byte has been consumed, drained or not.
NextPassReadsEarly(st) ==
    IF st.rb.is_deadline_reached
    THEN [st |-> st, out |-> "none", ret |-> None]
    ELSE
      LET doRead == st.rb.filled_up_to = None \/ st.rb.position > 0
          answer == TransportAnswer(st.script)
          data == TransportData(answer, st.offset)
          afterRead ==
              IF ~doRead THEN st
              ELSE [rb |-> IF answer.ok
                           THEN [st.rb EXCEPT !.buffer = BufferWrite(@, data),
                                              !.position = 0,
                                              !.filled_up_to = Some(answer.size)]
                           ELSE [st.rb EXCEPT !.is_deadline_reached = TRUE],
                    script |-> IF st.script = << >> THEN << >> ELSE Tail(st.script),
                    offset |-> st.offset + answer.size,
                    reads |-> Append(st.reads, PassCall(st, answer, data))]
      IN
      IF doRead /\ ~answer.ok
      THEN [st |-> afterRead, out |-> "none", ret |-> None]
      ELSE IF Some(afterRead.rb.position) = afterRead.rb.filled_up_to
      THEN [st |-> [afterRead EXCEPT !.rb.filled_up_to = None],
            out |-> "again", ret |-> None]
      ELSE [st |-> [afterRead EXCEPT !.rb.position = @ + 1],
            out |-> "byte",
            ret |-> Some(afterRead.rb.buffer[afterRead.rb.position + 1])]

\* A pass without the early return on is_deadline_reached.
NextPassForgetsEnd(st) ==
      LET doRead == st.rb.filled_up_to = None
          answer == TransportAnswer(st.script)
          data == TransportData(answer, st.offset)
          afterRead ==
              IF ~doRead THEN st
              ELSE [rb |-> IF answer.ok
                           THEN [st.rb EXCEPT !.buffer = BufferWrite(@, data),
                                              !.position = 0,
                                              !.filled_up_to = Some(answer.size)]
                           ELSE [st.rb EXCEPT !.is_deadline_reached = TRUE],
                    script |-> IF st.script = << >> THEN << >> ELSE Tail(st.script),
                    offset |-> st.offset + answer.size,
                    reads |-> Append(st.reads, PassCall(st, answer, data))]
      IN
      IF doRead /\ ~answer.ok
      THEN [st |-> afterRead, out |-> "none", ret |-> None]
      ELSE IF Some(afterRead.rb.position) = afterRead.rb.filled_up_to
      THEN [st |-> [afterRead EXCEPT !.rb.filled_up_to = None],
            out |-> "again", ret |-> None]
      ELSE [st |-> [afterRead EXCEPT !.rb.position = @ + 1],
            out |-> "byte",
            ret |-> Some(afterRead.rb.buffer[afterRead.rb.position + 1])]

\* A pass that takes a read of length zero for the end of the stream.
NextPassZeroEnds(st) ==
    IF st.rb.is_deadline_reached
    THEN [st |-> st, out |-> "none", ret |-> None]
    ELSE
      LET doRead == st.rb.filled_up_to = None
          answer == TransportAnswer(st.script)
          data == TransportData(answer, st.offset)
          good == answer.ok /\ answer.size > 0
          afterRead ==
              IF ~doRead THEN st
              ELSE [rb |-> IF good
                           THEN [st.rb EXCEPT !.buffer = BufferWrite(@, data),
                                              !.position = 0,
                                              !.filled_up_to = Some(answer.size)]
                           ELSE [st.rb EXCEPT !.is_deadline_reached = TRUE],
                    script |-> IF st.script = << >> THEN << >> ELSE Tail(st.script),
                    offset |-> st.offset + answer.size,
                    reads |-> Append(st.reads, PassCall(st, answer, data))]
      IN
      IF doRead /\ ~good
      THEN [st |-> afterRead, out |-> "none", ret |-> None]
      ELSE IF Some(afterRead.rb.position) = afterRead.rb.filled_up_to
      THEN [st |-> [afterRead EXCEPT !.rb.filled_up_to = None],
            out |-> "again", ret |-> None]
      ELSE [st |-> [afterRead EXCEPT !.rb.position = @ + 1],
            out |-> "byte",
            ret |-> Some(afterRead.rb.buffer[afterRead.rb.position + 1])]

\* A pass that drops the fill one byte early (position + 1 == filled_up_to).
NextPassDropsLastByte(st) ==
    IF st.rb.is_deadline_reached
    THEN [st |-> st, out |-> "none", ret |-> None]
    ELSE
      LET doRead == st.rb.filled_up_to = None
          answer == TransportAnswer(st.script)
          data == TransportData(answer, st.offset)
          afterRead ==
              IF ~doRead THEN st
              ELSE [rb |-> IF answer.ok
                           THEN [st.rb EXCEPT !.buffer = BufferWrite(@, data),
                                              !.position = 0,
                                              !.filled_up_to = Some(answer.size)]
                           ELSE [st.rb EXCEPT !.is_deadline_reached = TRUE],
                    script |-> IF st.script = << >> THEN << >> ELSE Tail(st.script),
                    offset |-> st.offset + answer.size,
                    reads |-> Append(st.reads, PassCall(st, answer, data))]
      IN
      IF doRead /\ ~answer.ok
      THEN [st |-> afterRead, out |-> "none", ret |-> None]
      ELSE IF afterRead.rb.filled_up_to # None
              /\ afterRead.rb.position + 1 >= afterRead.rb.filled_up_to[1]
      THEN [st |-> [afterRead EXCEPT !.rb.filled_up_to = None],
            out |-> "again", ret |-> None]
      ELSE [st |-> [afterRead EXCEPT !.rb.position = @ + 1],
            out |-> "byte",
            ret |-> Some(afterRead.rb.buffer[afterRead.rb.position + 1])]

\* A pass that takes the buffer for drained at its end, not at the fill
\* (position == buffer.len()).
NextPassDrainsAtBufferEnd(st) ==
    IF st.rb.is_deadline_reached
    THEN [st |-> st, out |-> "none", ret |-> None]
    ELSE
      LET doRead == st.rb.filled_up_to = None
          answer == TransportAnswer(st.script)
          data == TransportData(answer, st.offset)
          afterRead ==
              IF ~doRead THEN st
              ELSE [rb |-> IF answer.ok
                           THEN [st.rb EXCEPT !.buffer = BufferWrite(@, data),
                                              !.position = 0,
                                              !.filled_up_to = Some(answer.size)]
                           ELSE [st.rb EXCEPT !.is_deadline_reached = TRUE],
                    script |-> IF st.script = << >> THEN << >> ELSE Tail(st.script),
                    offset |-> st.offset + answer.size,
                    reads |-> Append(st.reads, PassCall(st, answer, data))]
      IN
      IF doRead /\ ~answer.ok
      THEN [st |-> afterRead, out |-> "none", ret |-> None]
      ELSE IF afterRead.rb.position = Len(afterRead.rb.buffer)
      THEN [st |-> [afterRead EXCEPT !.rb.filled_up_to = None],
            out |-> "again", ret |-> None]
      ELSE [st |-> [afterRead EXCEPT !.rb.position = @ + 1],
            out |-> "byte",
            ret |-> Some(afterRead.rb.buffer[afterRead.rb.position + 1])]

\* A pass that calls itself on a drained buffer without dropping the fill.
NextPassKeepsFill(st) ==
    IF st.rb.is_deadline_reached
    THEN [st |-> st, out |-> "none", ret |-> None]
    ELSE
      LET doRead == st.rb.filled_up_to = None
          answer == TransportAnswer(st.script)
          data == TransportData(answer, st.offset)
          afterRead ==
              IF ~doRead THEN st
              ELSE [rb |-> IF answer.ok
                           THEN [st.rb EXCEPT !.buffer = BufferWrite(@, data),
                                              !.position = 0,
                                              !.filled_up_to = Some(answer.size)]
                           ELSE [st.rb EXCEPT !.is_deadline_reached = TRUE],
                    script |-> IF st.script = << >> THEN << >> ELSE Tail(st.script),
                    offset |-> st.offset + answer.size,
                    reads |-> Append(st.reads, PassCall(st, answer, data))]
      IN
      IF doRead /\ ~answer.ok
      THEN [st |-> afterRead, out |-> "none", ret |-> None]
      ELSE IF Some(afterRead.rb.position) = afterRead.rb.filled_up_to
      THEN [st |-> afterRead, out |-> "again", ret |-> None]
      ELSE [st |-> [afterRead EXCEPT !.rb.position = @ + 1],
            out |-> "byte",
            ret |-> Some(afterRead.rb.buffer[afterRead.rb.position + 1])]

\* One execution of the body of ResponseBody::next on the state
\* st = [rb, script, offset, reads].  The result carries the state after it
\* and `out`: "none" (returned None), "byte" (returned Some(ret[1])) or
\* "again" (reached `return self.next()`).
NextPass(st) ==
    IF st.rb.is_deadline_reached
    THEN [st |-> st, out |-> "none", ret |-> None]
    ELSE
      LET doRead == st.rb.filled_up_to = None
          answer == TransportAnswer(st.script)
          data == TransportData(answer, st.offset)
          afterRead ==
              IF ~doRead THEN st
              ELSE [rb |-> IF answer.ok
                           THEN [st.rb EXCEPT !.buffer = BufferWrite(@, data),
                                              !.position = 0,
                                              !.filled_up_to = Some(answer.size)]
                           ELSE [st.rb EXCEPT !.is_deadline_reached = TRUE],
                    script |-> IF st.script = << >> THEN << >> ELSE Tail(st.script),
                    offset |-> st.offset + answer.size,
                    reads |-> Append(st.reads, PassCall(st, answer, data))]
      IN
      IF doRead /\ ~answer.ok
      THEN [st |-> afterRead, out |-> "none", ret |-> None]
      ELSE IF Some(afterRead.rb.position) = afterRead.rb.filled_up_to
      THEN [st |-> [afterRead EXCEPT !.rb.filled_up_to = None],
            out |-> "again", ret |-> None]
      ELSE [st |-> [afterRead EXCEPT !.rb.position = @ + 1],
            out |-> "byte",
            ret |-> Some(afterRead.rb.buffer[afterRead.rb.position + 1])]

\* ResponseBody::next as a whole: the passes up to the one that returns.
RECURSIVE NextRun(_)
NextRun(st) ==
    LET p == NextPass(st) IN
    IF p.out = "again" THEN NextRun(p.st) ELSE p

\* ResponseBody::next(&mut self)
BodyNext ==
    /\ pc = "idle"
    /\ LET p == NextRun([rb |-> rb, script |-> script, offset |-> offset,
                         reads |-> reads]) IN
       /\ rb' = p.st.rb
       /\ script' = p.st.script
       /\ offset' = p.st.offset
       /\ reads' = p.st.reads
       /\ yielded' = IF p.out = "byte" THEN Append(yielded, p.ret[1]) ELSE yielded
       /\ lastOp' = [op |-> "next", ret |-> p.ret, ended |-> rb.is_deadline_reached]
    /\ UNCHANGED pc
    /\ UNCHANGED <<sendVars, waitVars, iterVars, respVars>>

\* ResponseBody::next, pass by pass: the caller enters next() ...
NextCall ==
    /\ pc = "idle"
    /\ pc' = "next"
    /\ lastOp' = [op |-> "call", ret |-> None, ended |-> rb.is_deadline_reached]
    /\ UNCHANGED <<rb, script, offset, reads, yielded>>
    /\ UNCHANGED <<sendVars, waitVars, iterVars, respVars>>

\* ... and next() runs one pass of its body: it returns, or it has reached
\* `return self.next()` and the following pass is the call it makes.
NextStep ==
    /\ pc = "next"
    /\ LET p == NextPass([rb |-> rb, script |-> script, offset |-> offset,
                          reads |-> reads]) IN
       /\ rb' = p.st.rb
       /\ script' = p.st.script
       /\ offset' = p.st.offset
       /\ reads' = p.st.reads
       /\ yielded' = IF p.out = "byte" THEN Append(yielded, p.ret[1]) ELSE yielded
       /\ pc' = IF p.out = "again" THEN "next" ELSE "idle"
       /\ lastOp' = IF p.out = "again" THEN lastOp
                    ELSE [op |-> "next", ret |-> p.ret, ended |-> rb.is_deadline_reached]
    /\ UNCHANGED <<sendVars, waitVars, iterVars, respVars>>

\* ResponseBody::deadline(&mut self, deadline)
BodyDeadline(deadline) ==
    /\ pc = "idle"
    /\ rb' = [rb EXCEPT !.deadline = deadline]
    /\ lastOp' = [op |-> "deadline", ret |-> None, ended |-> rb.is_deadline_reached]
    /\ UNCHANGED <<script, offset, reads, yielded, pc>>
    /\ UNCHANGED <<sendVars, waitVars, iterVars, respVars>>

\* ResponseBody::is_deadline_reached(&self)
IsDeadlineReached == rb.is_deadline_reached

-----------------------------------------------------------------------------
(* Headers and HeadersIterator *)

\* Byte strings of header names and values as the transport reports them:
\* "A", U+00E9 in UTF-8, and a lone lead byte, which is not UTF-8.
HeaderBytes == {<< 65 >>, << 195, 169 >>, << 195 >>}
RawHeaders == SeqUpTo(HeaderBytes \X HeaderBytes, MaxRaw)

\* Option::unwrap_or
UnwrapOr(opt, default) == IF opt = None THEN default ELSE opt[1]

\* Headers::into_iter(&self)
IntoIter ==
    /\ iter' = Some([index |-> None])
    /\ nexts' = 0
    /\ iterOp' = [op |-> "into_iter", ret |-> FALSE, cur |-> None]
    /\ sawFalse' = FALSE
    /\ UNCHANGED <<raw, lastFind>>
    /\ UNCHANGED <<sendVars, waitVars, bodyVars, respVars>>

\* A next() that starts over once it has run past the end.
IterNextWraps ==
    /\ iter # None
    /\ nexts < Len(raw) + MaxExtraNext
    /\ LET old == IF iter[1].index = None THEN 0 ELSE iter[1].index[1] + 1
           index == IF old > Len(raw) THEN 0 ELSE old IN
       /\ iter' = Some([index |-> Some(index)])
       /\ iterOp' = [op |-> "next", ret |-> index < Len(raw), cur |-> None]
       /\ sawFalse' = (sawFalse \/ ~(index < Len(raw)))
    /\ nexts' = nexts + 1
    /\ UNCHANGED <<raw, lastFind>>
    /\ UNCHANGED <<sendVars, waitVars, bodyVars, respVars>>

\* HeadersIterator::next(&mut self)
IterNext ==
    /\ iter # None
    /\ nexts < Len(raw) + MaxExtraNext
    /\ LET index == IF iter[1].index = None THEN 0 ELSE iter[1].index[1] + 1 IN
       /\ iter' = Some([index |-> Some(index)])
       /\ iterOp' = [op |-> "next", ret |-> index < Len(raw), cur |-> None]
       /\ sawFalse' = (sawFalse \/ ~(index < Len(raw)))
    /\ nexts' = nexts + 1
    /\ UNCHANGED <<raw, lastFind>>
    /\ UNCHANGED <<sendVars, waitVars, bodyVars, respVars>>

\* What HeadersIterator::current(&self) returns for the iterator `it`.
Current(it) ==
    LET i == UnwrapOr(it.index, 0) IN
    IF i < Len(raw)
    THEN Some(<< UnwrapOr(from_utf8(raw[i + 1][1]), << >>),
                 UnwrapOr(from_utf8(raw[i + 1][2]), << >>) >>)
    ELSE None

\* A current() that moves the cursor on.
IterCurrentAdvances ==
    /\ iter # None
    /\ iterOp' = [op |-> "current", ret |-> FALSE, cur |-> Current(iter[1])]
    /\ iter' = Some([index |-> Some(UnwrapOr(iter[1].index, 0) + 1)])
    /\ UNCHANGED <<raw, nexts, sawFalse, lastFind>>
    /\ UNCHANGED <<sendVars, waitVars, bodyVars, respVars>>

\* HeadersIterator::current(&self)
IterCurrent ==
    /\ iter # None
    /\ iterOp' = [op |-> "current", ret |-> FALSE, cur |-> Current(iter[1])]
    /\ UNCHANGED <<raw, iter, nexts, sawFalse, lastFind>>
    /\ UNCHANGED <<sendVars, waitVars, bodyVars, respVars>>

\* The names looked up with Headers::find: "A", "a" and "\u{e9}".
FindNames == {<< 65 >>, << 97 >>, << 233 >>}

\* The scan of Headers::find from the i-th pair on.
RECURSIVE FindFrom(_, _, _)
FindFrom(collection, name, i) ==
    IF i > Len(collection) THEN None
    ELSE IF from_utf8(collection[i][1]) = Some(name)
         THEN from_utf8(collection[i][2])
         ELSE FindFrom(collection, name, i + 1)

\* A find that answers with the last pair of that name.
HeadersFindLast(collection, name) ==
    LET M == { i \in 1..Len(collection) : from_utf8(collection[i][1]) = Some(name) } IN
    IF M = {} THEN None
    ELSE from_utf8(collection[CHOOSE i \in M : \A j \in M : j <= i][2])

\* What Headers::find(&self, name) returns.
HeadersFind(collection, name) == FindFrom(collection, name, 1)

\* Headers::find(&self, name)
Find(name) ==
    /\ lastFind' = Some([name |-> name, ret |-> HeadersFind(raw, name)])
    /\ UNCHANGED <<raw, iter, nexts, iterOp, sawFalse>>
    /\ UNCHANGED <<sendVars, waitVars, bodyVars, respVars>>

-----------------------------------------------------------------------------
(* Response *)

\* The header collections http_response_headers may answer for the Response.
HeaderAnswers == SeqUpTo({<< <<65>>, <<65>> >>, << <<65>>, <<195>> >>}, MaxRaw)

HeadersAlwaysReads(r) == TRUE

\* Response::headers: whether this call fetches the headers from the transport.
HeadersNeedsRead(r) == r.headers = None

\* Response::headers(&mut self)
ResponseHeaders ==
    /\ hdrCalls < MaxHeaderCalls
    /\ LET read == HeadersNeedsRead(response)
           after == IF read THEN [response EXCEPT !.headers = Some([raw |-> tHeaders])]
                    ELSE response IN
       /\ response' = after
       /\ hdrReads' = IF read THEN Append(hdrReads, tHeaders) ELSE hdrReads
       /\ respOp' = [op |-> "headers", ret |-> after.headers]
    /\ hdrCalls' = hdrCalls + 1
    /\ UNCHANGED tHeaders
    /\ UNCHANGED <<sendVars, waitVars, bodyVars, iterVars>>

\* The transport comes to report other headers for the id.
TransportHeadersChange(answer) ==
    /\ answer # tHeaders
    /\ tHeaders' = answer
    /\ respOp' = [op |-> "change", ret |-> None]
    /\ UNCHANGED <<response, hdrReads, hdrCalls>>
    /\ UNCHANGED <<sendVars, waitVars, bodyVars, iterVars>>

-----------------------------------------------------------------------------
(* Specifications *)

InitWait ==
    /\ handles = {}
    /\ started = [i \in Ids |-> 0]
    /\ terminal = [i \in Ids |-> 0]
    /\ retries = [i \in Ids |-> 0]
    /\ lastWait = None

InitSend ==
    /\ request = None
    /\ nextId = 0
    /\ calls = << >>
    /\ sendResult = None
    /\ added = << >>
    /\ sent = None

InitBody(scripts) ==
    /\ rb = ResponseBodyNew(1)
    /\ script \in scripts
    /\ offset = 0
    /\ reads = << >>
    /\ yielded = << >>
    /\ lastOp = [op |-> "new", ret |-> None, ended |-> FALSE]
    /\ pc = "idle"

InitHeaders(raws) ==
    /\ raw \in raws
    /\ iter = None
    /\ nexts = 0
    /\ iterOp = [op |-> "none", ret |-> FALSE, cur |-> None]
    /\ sawFalse = FALSE
    /\ lastFind = None

InitResponse(answers) ==
    /\ response = ResponseNew(1, 200)
    /\ tHeaders \in answers
    /\ hdrReads = << >>
    /\ hdrCalls = 0
    /\ respOp = [op |-> "new", ret |-> None]

Init ==
    /\ InitSend /\ InitWait /\ InitBody({<< >>}) /\ InitHeaders({<< >>})
    /\ InitResponse({<< >>})

NextSend ==
    \/ \E url \in Urls : New(url)
    \/ \E url \in Urls : Url(url)
    \/ \E m \in Methods : SetMethod(m)
    \/ \E b \in SeqUpTo(Chunks, MaxChunks) : Body(b)
    \/ \E h \in HeaderArgs : AddHeader(h[1], h[2])
    \/ \E d \in Timestamps : Deadline(d)
    \/ Send

SpecSend == Init /\ [][NextSend]_vars

NextWait ==
    \/ New("http://x/y")
    \/ Send
    \/ \E b \in Batches(MaxBatch), d \in WaitDeadlines : TryWaitAll(b, d)
    \/ \E h \in handles, d \in WaitDeadlines : TryWait(h, d)

SpecWait == Init /\ [][NextWait]_vars

\* No operation follows a panic.
NextWaitAny ==
    \/ ~Panicked /\ New("http://x/y")
    \/ ~Panicked /\ Send
    \/ ~Panicked /\ \E b \in Batches(MaxBatch) : TryWaitAll(b, Some(1))
    \/ ~Panicked /\ \E h \in handles : TryWait(h, Some(1))
    \/ ~Panicked /\ \E h \in handles : Wait(h)
    \/ ~Panicked /\ \E b \in Batches(MaxBatch) : WaitAll(b)

SpecWaitAny == Init /\ [][NextWaitAny]_vars

-----------------------------------------------------------------------------
(* PendingRequest: claims *)

\* C1: try_wait_all over N requests and N statuses returns N results, in
\* input order, and result[i] is a function of status[i] and requests[i]
\* alone: it is what the singleton call on that pair returns, and it is the
\* same whatever the transport reports at the other positions.
C1_PerElementResults ==
    lastWait # None =>
        LET w == lastWait[1]
            N == Len(w.requests) IN
        /\ Len(w.statuses) = N
        /\ Len(w.result) = N
        /\ \A i \in 1..N :
              /\ w.result[i] = TryWaitAllResult(<< w.requests[i] >>, << w.statuses[i] >>)[1]
              /\ \A other \in [1..N -> Statuses] :
                    other[i] = w.statuses[i] =>
                       /\ Len(TryWaitAllResult(w.requests, other)) = N
                       /\ TryWaitAllResult(w.requests, other)[i] = w.result[i]

\* A batch of two whose first request did not succeed and whose second did.
C1_Witness ==
    /\ lastWait # None
    /\ lastWait[1].op = "try_wait_all"
    /\ Len(lastWait[1].requests) = 2
    /\ lastWait[1].statuses[1].kind = "Timeout"
    /\ lastWait[1].statuses[2].kind = "Finished"
    /\ lastWait[1].requests[1].id > lastWait[1].requests[2].id

\* C2: DeadlineReached gives Err(request); Timeout gives Ok(Err(Timeout));
\* Unknown gives Ok(Err(Unknown)); Finished(code) gives Ok(Ok(Response)) with
\* that request's id and the reported code; nothing else is produced.
C2_StatusMapping ==
    lastWait # None =>
        LET w == lastWait[1] IN
        \A i \in 1..Len(w.result) :
            LET st == w.statuses[i]
                res == w.result[i] IN
            /\ st.kind = "DeadlineReached" =>
                  res = [tag |-> "Err", req |-> << w.requests[i] >>, err |-> "",
                         resp |-> << >>]
            /\ st.kind = "Timeout" =>
                  res = [tag |-> "OkErr", req |-> << >>, err |-> "Timeout", resp |-> << >>]
            /\ st.kind = "Unknown" =>
                  res = [tag |-> "OkErr", req |-> << >>, err |-> "Unknown", resp |-> << >>]
            /\ st.kind = "Finished" =>
                  /\ res.tag = "OkOk" /\ res.req = << >> /\ res.err = ""
                  /\ Len(res.resp) = 1
                  /\ res.resp[1].id = w.requests[i].id
                  /\ res.resp[1].code = st.code
            /\ st.kind \in {"DeadlineReached", "Timeout", "Unknown", "Finished"}

\* A batch answered [Finished(200), DeadlineReached].
C2_Witness ==
    /\ lastWait # None
    /\ lastWait[1].op = "try_wait_all"
    /\ lastWait[1].statuses = << Finished(200), DeadlineReached >>

\* C3: a handle handed back as Err after DeadlineReached carries the id it
\* had (so the caller owns it again and every wait names an id that was
\* started once and is not yet resolved), no id is started twice, no id gets
\* a second terminal outcome, and no handle remains for a resolved id.
C3_HandleKeepsId ==
    /\ lastWait # None =>
          LET w == lastWait[1] IN
          \A i \in 1..Len(w.result) :
              /\ w.ids[i] = w.requests[i].id
              /\ started[w.ids[i]] = 1
              /\ w.result[i].tag = "Err" =>
                    /\ w.result[i].req[1].id = w.requests[i].id
                    /\ w.result[i].req[1] \in handles
                    /\ terminal[w.ids[i]] = 0
              /\ w.result[i].tag # "Err" =>
                    /\ terminal[w.ids[i]] = 1
                    /\ w.requests[i] \notin handles
    /\ \A id \in Ids :
          /\ started[id] <= 1
          /\ terminal[id] <= 1
          /\ terminal[id] = 1 => [id |-> id] \notin handles
          /\ [id |-> id] \in handles => started[id] = 1 /\ terminal[id] = 0
          /\ retries[id] > 0 => started[id] = 1

\* A request handed back twice by try_wait and then resolved by a third call.
C3_Witness ==
    /\ lastWait # None
    /\ lastWait[1].op = "try_wait"
    /\ TryWaitReturn(lastWait[1]).tag = "OkOk"
    /\ retries[lastWait[1].ids[1]] = 2
    /\ terminal[lastWait[1].ids[1]] = 1

NextBody ==
    \/ BodyNext
    \/ \E d \in Deadlines : BodyDeadline(d)

\* A fresh cursor over a response whose transport has any script of answers.
InitBodyAny ==
    /\ InitSend /\ InitWait /\ InitHeaders({<< >>}) /\ InitResponse({<< >>})
    /\ InitBody(SeqUpTo(ReadAnswers, MaxReads))

SpecBody == InitBodyAny /\ [][NextBody]_vars

\* The cursor with next() taken pass by pass.  A pass that is under way is
\* carried out (the program runs), and the caller keeps calling next().
NextBodyLive ==
    \/ NextCall
    \/ NextStep
    \/ BodyDeadline(Some(1))

SpecBodyLive ==
    InitBodyAny /\ [][NextBodyLive]_vars /\ WF_vars(NextStep) /\ WF_vars(NextCall)

NextHeaders ==
    \/ IntoIter
    \/ IterNext
    \/ IterCurrent
    \/ \E name \in FindNames : Find(name)

\* Any header collection, no iterator yet.
InitHeadersAny ==
    /\ InitSend /\ InitWait /\ InitBody({<< >>}) /\ InitResponse({<< >>})
    /\ InitHeaders(RawHeaders)

SpecHeaders == InitHeadersAny /\ [][NextHeaders]_vars

NextResponse ==
    \/ ResponseHeaders
    \/ \E a \in HeaderAnswers : TransportHeadersChange(a)

\* A fresh Response whose transport has any headers to report.
InitResponseAny ==
    /\ InitSend /\ InitWait /\ InitBody({<< >>}) /\ InitHeaders({<< >>})
    /\ InitResponse(HeaderAnswers)

SpecResponse == InitResponseAny /\ [][NextResponse]_vars

-----------------------------------------------------------------------------
(* Request::send: claims *)

SendOk == sendResult # None /\ sendResult[1].ok
SendErr == sendResult # None /\ ~sendResult[1].ok

\* C4: a successful send() issues exactly start(method, url), then one
\* add_header per added header in insertion order (duplicates kept), then one
\* write_body per body chunk in chunk order, then one write_body of the empty
\* chunk; every call carries the id start returned, and the PendingRequest
\* returned wraps that id.
C4_SendCallOrder ==
    SendOk =>
        LET r == sent[1]
            id == nextId
            H == Len(added)
            C == Len(r.body) IN
        /\ Len(calls) = 1 + H + C + 1
        /\ calls[1] = StartCall(id, MethodAsRef(r.method), r.url)
        /\ \A i \in 1..H : calls[1 + i] = AddHeaderCall(id, added[i][1], added[i][2])
        /\ \A j \in 1..C : calls[1 + H + j] = WriteBodyCall(id, r.body[j], r.deadline, TRUE)
        /\ calls[1 + H + C + 1] = WriteBodyCall(id, << >>, r.deadline, TRUE)
        /\ sendResult[1].pending = Some([id |-> id])

\* A successful send of two equal headers and a two-chunk body.
C4_Witness ==
    /\ SendOk
    /\ Len(added) = 2 /\ added[1] = added[2]
    /\ Len(sent[1].body) = 2 /\ sent[1].body[1] # << >>

\* C5: when a write_body of send() fails, that write is the last transport
\* call of the send (nothing follows it, it is not repeated), send() returns
\* Err and hands out no PendingRequest; and send() returns Err only so.
C5_WriteFailureAborts ==
    /\ \A i \in 1..Len(calls) :
          ~calls[i].ok =>
             /\ calls[i].op = "write_body"
             /\ i = Len(calls)
             /\ SendErr
             /\ sendResult[1].pending = None
    /\ SendErr => ~calls[Len(calls)].ok
    /\ SendErr => [id |-> nextId] \notin handles

\* The first of two body chunks failed to write: the second chunk and the
\* finalising write were due and were not issued.
C5_Witness ==
    /\ SendErr
    /\ Len(sent[1].body) = 2
    /\ Len(sent[1].headers) = 1
    /\ Len(calls) = 3
    /\ calls[3].chunk # << >>

-----------------------------------------------------------------------------
(* ResponseBody: claims *)

\* The bytes of the current fill that next() has not yet returned.
Unconsumed ==
    IF rb.filled_up_to = None THEN << >>
    ELSE SubSeq(rb.buffer, rb.position + 1, rb.filled_up_to[1])

\* The data of all read_body calls so far, in call order.
RECURSIVE ConcatData(_)
ConcatData(rs) == IF rs = << >> THEN << >> ELSE Head(rs).data \o ConcatData(Tail(rs))

\* C6: every read_body call was issued with no fill recorded; the first one
\* on the fresh cursor, every later one after a successful read whose bytes
\* had all been consumed (the read position had reached its length).
C6_NoReadWhileBuffered ==
    \A i \in 1..Len(reads) :
        /\ reads[i].fill = None
        /\ i = 1 => reads[i].pos = 0
        /\ i > 1 => reads[i - 1].ok /\ reads[i].pos = Len(reads[i - 1].data)

\* A second read happened after a first read of two bytes.
C6_Witness ==
    /\ Len(reads) >= 2
    /\ Len(reads[1].data) = 2
    /\ reads[2].ok /\ Len(reads[2].data) = 1

\* C7: once the stream has ended, every step leaves it ended, issues no
\* read_body, yields no byte, and a next() returns None, whatever deadline
\* is set.
C7_EndedStaysEnded ==
    [][rb.is_deadline_reached =>
          /\ rb'.is_deadline_reached
          /\ reads' = reads
          /\ yielded' = yielded
          /\ lastOp'.op = "next" => lastOp'.ret = None]_vars

\* next() was called on an ended stream whose deadline was changed after the
\* failed read, while the transport still had data to give.
C7_Witness ==
    /\ rb.is_deadline_reached
    /\ lastOp.op = "next" /\ lastOp.ended /\ lastOp.ret = None
    /\ rb.deadline = Some(2)
    /\ reads[Len(reads)].deadline = None
    /\ script # << >> /\ Head(script).ok /\ Head(script).size > 0

\* C8: next() returns None only when a read_body call has failed; a read of
\* length zero is never the last read when next() returns (a fresh read
\* follows it), it does not end the stream, and it adds no byte: the bytes
\* yielded and still buffered are the data of the reads.
C8_ZeroReadNotEnd ==
    /\ (lastOp.op = "next" /\ lastOp.ret = None) =>
          /\ rb.is_deadline_reached
          /\ reads # << >> /\ ~reads[Len(reads)].ok
    /\ rb.is_deadline_reached => reads # << >> /\ ~reads[Len(reads)].ok
    /\ \A i \in 1..Len(reads) :
          (reads[i].ok /\ reads[i].data = << >>) => i < Len(reads)
    /\ Len(yielded) + Len(Unconsumed) = Len(ConcatData(reads))

\* One byte of data, then two reads of length zero, then the failure.
C8_Witness ==
    /\ rb.is_deadline_reached
    /\ Len(reads) = 4
    /\ Len(reads[1].data) = 1
    /\ reads[2].ok /\ reads[2].data = << >>
    /\ reads[3].ok /\ reads[3].data = << >>
    /\ yielded = << 1 >>

\* C9: the bytes yielded so far, followed by the bytes still buffered, are
\* the concatenation of the chunks read, in order; when the stream has ended
\* nothing is buffered, so the bytes yielded are exactly that concatenation.
C9_StreamIsConcatenation ==
    /\ yielded \o Unconsumed = ConcatData(reads)
    /\ rb.is_deadline_reached =>
          /\ Unconsumed = << >>
          /\ yielded = ConcatData(reads)

\* Chunks of two, zero and one bytes, then the failure: three bytes yielded.
C9_Witness ==
    /\ rb.is_deadline_reached
    /\ Len(reads) = 4
    /\ Len(reads[1].data) = 2 /\ reads[2].ok /\ Len(reads[2].data) = 0
    /\ Len(reads[3].data) = 1
    /\ yielded = << 1, 2, 3 >>

-----------------------------------------------------------------------------
(* HeadersIterator: claims *)

\* C10: on a fresh HeadersIterator, current() called before any next()
\* returns none.
C10_CurrentBeforeNext ==
    (iter # None /\ nexts = 0 /\ iterOp.op = "current") => iterOp.cur = None


\* C11: once next() has returned false, current() returns none and every
\* further next() returns false.
C11_ExhaustedStaysExhausted ==
    (iter # None /\ sawFalse) =>
        /\ Current(iter[1]) = None
        /\ iterOp.op = "current" => iterOp.cur = None
        /\ iterOp.op = "next" => ~iterOp.ret

\* current() after two next() calls past the end of a two-pair collection.
C11_Witness ==
    /\ iter # None /\ sawFalse
    /\ Len(raw) = 2
    /\ nexts = Len(raw) + 2
    /\ iterOp.op = "current"


-----------------------------------------------------------------------------
(* Response: claims *)

\* C12: over any number of headers() calls, http_response_headers is called
\* exactly once, by the first call, and every call returns what that one
\* call answered, whatever the transport would answer later.
C12_HeadersReadOnce ==
    /\ hdrCalls = 0 => hdrReads = << >> /\ response.headers = None
    /\ hdrCalls >= 1 =>
          /\ Len(hdrReads) = 1
          /\ response.headers = Some([raw |-> hdrReads[1]])
          /\ respOp.op = "headers" => respOp.ret = Some([raw |-> hdrReads[1]])

\* A second headers() call made after the transport changed its answer.
C12_Witness ==
    /\ hdrCalls >= 2
    /\ respOp.op = "headers"
    /\ tHeaders # hdrReads[1]


-----------------------------------------------------------------------------
(* PendingRequest::wait, wait_all and the transport wait: claims *)

\* C13: wait and wait_all hand no deadline to the transport wait; when the
\* transport reports DeadlineReached for a request all the same, the call
\* panics and returns nothing; otherwise it returns one terminal outcome
\* (a Response, Timeout or Unknown) per request, in order.
C13_WaitPanicsOnDeadline ==
    (lastWait # None /\ lastWait[1].op \in {"wait", "wait_all"}) =>
        LET w == lastWait[1]
            N == Len(w.requests) IN
        /\ \A c \in 1..Len(w.transport) : w.transport[c].deadline = None
        /\ (\E i \in 1..N : w.statuses[i].kind = "DeadlineReached") =>
              w.panic /\ w.ret = << >>
        /\ (\A i \in 1..N : w.statuses[i].kind # "DeadlineReached") =>
              /\ ~w.panic
              /\ Len(w.ret) = N
              /\ \A i \in 1..N :
                    \/ /\ w.statuses[i].kind = "Finished"
                       /\ w.ret[i].tag = "OkOk"
                       /\ w.ret[i].resp[1].id = w.requests[i].id
                       /\ w.ret[i].resp[1].code = w.statuses[i].code
                    \/ /\ w.statuses[i].kind \in {"Timeout", "Unknown"}
                       /\ w.ret[i].tag = "OkErr"
                       /\ w.ret[i].err = w.statuses[i].kind

\* wait_all over two requests, the second of which came back DeadlineReached.
C13_Witness ==
    /\ lastWait # None
    /\ lastWait[1].op = "wait_all"
    /\ lastWait[1].statuses = << Finished(200), DeadlineReached >>
    /\ lastWait[1].panic

\* C14: every try_wait_all call, made directly or by try_wait, wait or
\* wait_all, issues exactly one transport wait: over the ids of all input
\* requests in input order, with the deadline given (none for wait and
\* wait_all), whatever statuses come back.
C14_OneTransportWait ==
    lastWait # None =>
        LET w == lastWait[1] IN
        /\ Len(w.transport) = 1
        /\ Len(w.transport[1].ids) = Len(w.requests)
        /\ \A i \in 1..Len(w.requests) : w.transport[1].ids[i] = w.requests[i].id
        /\ w.transport[1].deadline = w.deadline
        /\ w.op \in {"wait", "wait_all"} => w.transport[1].deadline = None

\* try_wait_all with a deadline over two requests given in reverse id order,
\* one answered DeadlineReached and one Timeout.
C14_Witness ==
    /\ lastWait # None
    /\ lastWait[1].op = "try_wait_all"
    /\ lastWait[1].deadline = Some(1)
    /\ Len(lastWait[1].requests) = 2
    /\ lastWait[1].requests[1].id > lastWait[1].requests[2].id
    /\ lastWait[1].statuses = << DeadlineReached, Timeout >>


-----------------------------------------------------------------------------
(* Headers::find: claims *)

\* The pairs of raw whose name is exactly the bytes of `name`.
Matches(name) == { i \in 1..Len(raw) : raw[i][1] = AsBytes(name) }

FirstMatch(name) == CHOOSE i \in Matches(name) : \A j \in Matches(name) : i <= j

\* The byte sequence is the encoding of some text.
ValidUtf8(bytes) == \E s \in SeqUpTo(Chars, Len(bytes)) : AsBytes(s) = bytes

\* C15 as stated: find returns the value of the first pair whose name equals
\* the given name exactly, and none when no pair has that name.
C15_FindFirstValue ==
    lastFind # None =>
        LET f == lastFind[1] IN
        IF Matches(f.name) = {} THEN f.ret = None
        ELSE /\ f.ret # None
             /\ AsBytes(f.ret[1]) = raw[FirstMatch(f.name)][2]

\* C15, amended: find looks at the first pair whose name equals the given
\* name exactly and at no later pair; it returns that pair's value as text
\* when the value is valid UTF-8 and none when it is not; it returns none
\* when no pair has that name.
C15_FindFirstDecoded ==
    lastFind # None =>
        LET f == lastFind[1] IN
        IF Matches(f.name) = {} THEN f.ret = None
        ELSE LET val == raw[FirstMatch(f.name)][2] IN
             IF ValidUtf8(val)
             THEN f.ret # None /\ AsBytes(f.ret[1]) = val
             ELSE f.ret = None

\* Two pairs of the name looked up with different values: the first value
\* came back.
C15_Witness ==
    /\ lastFind # None
    /\ Len(raw) = 2
    /\ Matches(lastFind[1].name) = {1, 2}
    /\ raw[1][2] # raw[2][2]
    /\ lastFind[1].ret # None
    /\ AsBytes(lastFind[1].ret[1]) = raw[1][2]


-----------------------------------------------------------------------------
(* ResponseBody: deadline of the refills *)

\* C16: every read_body call made by a step passes the deadline stored in
\* the cursor when the step began (next() does not change it): a deadline
\* set between two refills goes to the later one, and a cursor whose
\* deadline is still the initial one passes none.
C16_ReadPassesStoredDeadline ==
    [][\A i \in (Len(reads) + 1)..Len(reads') :
          /\ reads'[i].deadline = rb.deadline
          /\ reads'[i].deadline = rb'.deadline]_vars

\* Two refills: the first before any deadline was set, the second after a
\* deadline was stored.
C16_Witness ==
    /\ Len(reads) >= 2
    /\ reads[1].deadline = None
    /\ reads[2].deadline = Some(1)
    /\ rb.deadline = Some(1)
    /\ lastOp.op = "next"


-----------------------------------------------------------------------------
(* ResponseBody: position and fill *)

\* C18: whenever a fill length n is recorded, 0 <= position <= n <= buffer
\* size; a byte yielded by next() was read at an index below n, out of the
\* bytes the latest read_body wrote, never out of what an earlier, longer
\* read left behind.
C18_PositionWithinFill ==
    /\ rb.filled_up_to # None =>
          /\ 0 <= rb.position
          /\ rb.position <= rb.filled_up_to[1]
          /\ rb.filled_up_to[1] <= BufSize
    /\ (lastOp.op = "next" /\ lastOp.ret # None) =>
          /\ rb.filled_up_to # None
          /\ rb.position >= 1
          /\ rb.position - 1 < rb.filled_up_to[1]
          /\ reads # << >>
          /\ reads[Len(reads)].ok
          /\ Len(reads[Len(reads)].data) = rb.filled_up_to[1]
          /\ lastOp.ret[1] = reads[Len(reads)].data[rb.position]
          /\ lastOp.ret[1] = rb.buffer[rb.position]

\* A byte yielded from a one-byte read that followed a two-byte read: the
\* buffer still holds the second byte of the earlier read.
C18_Witness ==
    /\ lastOp.op = "next"
    /\ lastOp.ret # None
    /\ Len(reads) = 2
    /\ Len(reads[1].data) = 2
    /\ Len(reads[2].data) = 1
    /\ rb.filled_up_to = Some(1)
    /\ rb.position = 1
    /\ rb.buffer[2] = reads[1].data[2]


-----------------------------------------------------------------------------
(* ResponseBody: termination *)

\* C17: with a transport that fails once its answers have run out, every
\* call of next() that is under way returns, whatever run of zero-length
\* reads it meets, and a caller that keeps calling gets None in the end.
C17_NextReturns ==
    /\ (pc = "next") ~> (pc = "idle")
    /\ <>(pc = "idle" /\ lastOp.op = "next" /\ lastOp.ret = None
           /\ rb.is_deadline_reached)

\* A call of next() under way after two zero-length reads in a row.
C17_Witness ==
    /\ pc = "next"
    /\ Len(reads) >= 2
    /\ reads[Len(reads)].ok /\ reads[Len(reads)].data = << >>
    /\ reads[Len(reads) - 1].ok /\ reads[Len(reads) - 1].data = << >>
    /\ lastOp.op = "call"


-----------------------------------------------------------------------------
(* HeadersIterator: walking the collection *)

\* The cursor is where the next() calls made so far have put it, and each
\* next() answered whether it landed on a pair.
CursorFollowsNexts ==
    iter # None =>
        /\ iter[1].index = (IF nexts = 0 THEN None ELSE Some(nexts - 1))
        /\ iterOp.op = "next" => iterOp.ret = (nexts <= Len(raw))

\* C19 as stated: from a fresh iterator over L pairs the first L calls of
\* next() return true and the next one false; current() after the k-th
\* call (1 <= k <= L) returns the k-th pair, and does not move the cursor.
C19_CurrentReturnsKthPair ==
    /\ CursorFollowsNexts
    /\ (iter # None /\ iterOp.op = "current" /\ nexts >= 1 /\ nexts <= Len(raw)) =>
          /\ iterOp.cur # None
          /\ \A j \in 1..2 : AsBytes(iterOp.cur[1][j]) = raw[nexts][j]

\* C19, amended: as stated, except that current() returns the k-th pair
\* decoded: a name or value that is valid UTF-8 comes back as its text, one
\* that is not comes back as the empty string.
C19_CurrentReturnsKthDecoded ==
    /\ CursorFollowsNexts
    /\ (iter # None /\ iterOp.op = "current" /\ nexts >= 1 /\ nexts <= Len(raw)) =>
          /\ iterOp.cur # None
          /\ \A j \in 1..2 :
                IF ValidUtf8(raw[nexts][j])
                THEN AsBytes(iterOp.cur[1][j]) = raw[nexts][j]
                ELSE iterOp.cur[1][j] = << >>

\* current() on the second of two different pairs, its name valid UTF-8 and
\* its value not.
C19_Witness ==
    /\ iter # None
    /\ iterOp.op = "current"
    /\ Len(raw) = 2 /\ nexts = 2
    /\ raw[1] # raw[2]
    /\ raw[2] = << << 195, 169 >>, << 195 >> >>
    /\ iterOp.cur = Some(<< << 233 >>, << >> >>)


-----------------------------------------------------------------------------
(* Request::send: the finalising write *)

\* C20: in the transport calls of a send, whatever the body, no call
\* follows a write_body of the empty chunk, and a send that returned Ok
\* ends with that write.
C20_EmptyWriteIsLast ==
    sendResult # None =>
        /\ \A i \in 1..Len(calls) :
              (calls[i].op = "write_body" /\ calls[i].chunk = << >>) => i = Len(calls)
        /\ sendResult[1].ok =>
              /\ calls[Len(calls)].op = "write_body"
              /\ calls[Len(calls)].chunk = << >>

====
